---- MODULE Spec2Model ----
(***************************************************************************)
(* Model of microdnf's install command, CmdInstall::run                    *)
(* (src/microdnf/commands/install/install.cpp).                            *)
(*                                                                         *)
(* One action per statement of run().  Calls into collaborators are        *)
(* recorded in `calls` with their argument and their outcome.  The void    *)
(* collaborators the run depends on (repository loading, download,         *)
(* execution) either return or throw; run() has no try/catch, so a throw   *)
(* leaves run() at once.  The wall clock (std::chrono::system_clock) is    *)
(* part of the environment: it advances, and it can be set back.           *)
(*                                                                         *)
(* The second part models libdnf5::Logger                                  *)
(* (src/include/libdnf5/logger/logger.hpp) under LoggerSpec: the optional  *)
(* level, the convenience calls, log, log_line and a recording sink.       *)
(***************************************************************************)
EXTENDS Integers, Sequences, FiniteSets, TLC

\* ---- bounds ----
MaxPatterns == 2
MaxClock == 5
TicksPerSecond == 2

PatternValues == {"foo", "nonexistent"}

VARIABLES
    pc,               \* position of run()
    patterns,         \* *patterns_to_install_options
    idx,              \* position of the range-for over the patterns
    goal_requests,    \* install requests registered in the goal
    goal_items,       \* transaction items the resolved goal holds
    rpm_transaction,  \* libdnf::rpm::Transaction rpm_transaction
    db_transaction,   \* the record behind the db_transaction handle
    time,             \* local variable `time` (clock ticks since epoch)
    clock,            \* std::chrono::system_clock (ticks since epoch)
    out,              \* what run() itself wrote to std::cout
    calls,            \* collaborator calls made so far, in order
    level,            \* Logger::level, a std::optional<Level>
    pid,              \* what getpid() returns in this process
    written,          \* invocations of the sink's write(), in order
    sformat_count,    \* invocations of libdnf5::utils::sformat so far
    set_history,      \* whether set_level was ever called, and its last argument
    ret               \* how the most recent Logger call ended

\* the state of CmdInstall::run and of its collaborators
ivars == <<pc, patterns, idx, goal_requests, goal_items, rpm_transaction,
           db_transaction, time, clock, out, calls>>

\* the state of a Logger and of its sink
lvars == <<level, pid, written, sformat_count, set_history, ret>>

vars == <<pc, patterns, idx, goal_requests, goal_items, rpm_transaction,
          db_transaction, time, clock, out, calls,
          level, pid, written, sformat_count, set_history, ret>>

SeqsUpTo(S, n) == UNION {[1..k -> S] : k \in 0..n}

\* libdnf::GoalProblem as far as run() distinguishes it
GoalProblems == {"NO_PROBLEM", "PROBLEM"}

\* outcome of a call to a void collaborator
CallOutcomes == {"ok", "throw"}

BoolStr(b) == IF b THEN "true" ELSE "false"

Call(op, arg, res) == Append(calls, [op |-> op, arg |-> arg, res |-> res])

\* std::chrono::duration_cast<std::chrono::seconds>(time).count()
to_seconds(t) == t \div TicksPerSecond

\* A collaborator that throws ends run(): there is no try/catch in run().
AfterCollaborator_Swallow(res, next) == next

AfterCollaborator(res, next) == IF res = "throw" THEN "thrown" ELSE next

\* if (goal.resolve(false) != NO_PROBLEM) { print problems; return; }
AfterResolve_NoReturn(res) == "print_transaction_table"

AfterResolve_SkipPreview(res) ==
    IF res # "NO_PROBLEM" THEN "print_problems" ELSE "download_packages"

AfterResolve(res) ==
    IF res # "NO_PROBLEM" THEN "print_problems" ELSE "print_transaction_table"

\* if (!print_transaction_table(goal)) return;
AfterPrintTable_Ignore(shown) == "userconfirm"

AfterPrintTable(shown) == IF ~shown THEN "returned" ELSE "userconfirm"

\* if (!userconfirm(config)) { print "Operation aborted."; return; }
AfterUserConfirm_Ignore(answer) == "download_packages"

AfterUserConfirm(answer) ==
    IF ~answer THEN "print_aborted" ELSE "download_packages"

NoDbTransaction ==
    [created |-> 0, dt_start |-> 0, dt_start_sets |-> 0, starts |-> 0,
     dt_end |-> 0, dt_end_sets |-> 0, finishes |-> 0, state |-> "UNSET",
     items |-> <<>>]

NoRpmTransaction == [constructed |-> 0, items |-> <<>>, runs |-> 0]

\* ---- Logger (src/include/libdnf5/logger/logger.hpp) ----
MaxWritten == 1

\* enum class Level : unsigned int { CRITICAL, ERROR, ..., TRACE }
CRITICAL == 0
ERROR == 1
WARNING == 2
NOTICE == 3
INFO == 4
DEBUG == 5
TRACE == 6

Levels == {CRITICAL, ERROR, WARNING, NOTICE, INFO, DEBUG, TRACE}

\* format templates and arguments the callers pass
Formats == {"x", "{}"}

FormatArgs == {"y"}

\* libdnf5::utils::sformat(format, args...): expands the template
sformat(format, arg) == IF format = "{}" THEN arg ELSE format

\* std::optional<Level> level; without a value its storage is indeterminate
NoLevel(garbage) == [has_value |-> FALSE, value |-> garbage]

\* void set_level(Level level) { this->level = level; }
set_level_KeepFirst(lv, l) ==
    IF lv.has_value THEN lv ELSE [has_value |-> TRUE, value |-> l]

set_level(lv, l) == [has_value |-> TRUE, value |-> l]

\* bool is_level_set() { return level.has_value(); }
is_level_set_Always(lv) == TRUE

is_level_set(lv) == lv.has_value

\* bool is_enabled_for(Level msg_level)
is_enabled_for(lv, msg_level) == is_level_set(lv) /\ msg_level <= lv.value

\* Level get_level(): LoggerErrorLevelNotSet is thrown when no level is set
get_level(lv) ==
    IF ~is_level_set(lv)
    THEN [kind |-> "throw", lvl |-> CRITICAL]
    ELSE [kind |-> "return", lvl |-> lv.value]

\* log_line and write are noexcept: nothing propagates to the caller
LogLineOutcome_Propagate(sink_ok) == IF sink_ok THEN "return" ELSE "throw"

LogLineOutcome(sink_ok) == "return"

NoRet ==
    [op |-> "none", arg |-> CRITICAL, kind |-> "return", lvl |-> CRITICAL,
     bool |-> FALSE, formatted |-> 0, writes |-> 0]

NoSetHistory == [ever |-> FALSE, arg |-> CRITICAL]

Init ==
    /\ pc = "create_system_repo"
    /\ patterns \in SeqsUpTo(PatternValues, MaxPatterns)
    /\ idx = 1
    /\ goal_requests = <<>>
    /\ goal_items = <<>>
    /\ rpm_transaction = NoRpmTransaction
    /\ db_transaction = NoDbTransaction
    /\ time = 0
    /\ clock \in 0..MaxClock
    /\ out = <<>>
    /\ calls = <<>>
    /\ level = NoLevel(CRITICAL)
    /\ pid = 1
    /\ written = <<>>
    /\ sformat_count = 0
    /\ set_history = NoSetHistory
    /\ ret = NoRet

Running == pc \notin {"returned", "thrown"}

\* ---- the environment: the wall clock ----
ClockTick ==
    /\ Running
    /\ clock < MaxClock
    /\ clock' = clock + 1
    /\ UNCHANGED <<pc, patterns, idx, goal_requests, goal_items,
                   rpm_transaction, db_transaction, time, out, calls>>
    /\ UNCHANGED lvars

\* system_clock is the wall clock: it is not monotonic, it can be set back
ClockAdjust ==
    /\ Running
    /\ \E c \in 0..(clock - 1) : clock' = c
    /\ UNCHANGED <<pc, patterns, idx, goal_requests, goal_items,
                   rpm_transaction, db_transaction, time, out, calls>>
    /\ UNCHANGED lvars

\* ---- run(), statement by statement ----
CreateSystemRepo ==
    /\ pc = "create_system_repo"
    /\ \E res \in CallOutcomes :
        /\ calls' = Call("create_system_repo", "false", res)
        /\ pc' = AfterCollaborator(res, "load_rpm_repos")
    /\ UNCHANGED <<patterns, idx, goal_requests, goal_items, rpm_transaction,
                   db_transaction, time, clock, out>>
    /\ UNCHANGED lvars

LoadRpmRepos ==
    /\ pc = "load_rpm_repos"
    /\ \E res \in CallOutcomes :
        /\ calls' = Call("load_rpm_repos",
                         "USE_FILELISTS|USE_PRESTO|USE_UPDATEINFO|USE_OTHER",
                         res)
        /\ pc' = AfterCollaborator(res, "endl_86")
    /\ UNCHANGED <<patterns, idx, goal_requests, goal_items, rpm_transaction,
                   db_transaction, time, clock, out>>
    /\ UNCHANGED lvars

PrintEndl86 ==
    /\ pc = "endl_86"
    /\ out' = Append(out, "endl")
    /\ pc' = "goal"
    /\ UNCHANGED <<patterns, idx, goal_requests, goal_items, rpm_transaction,
                   db_transaction, time, clock, calls>>
    /\ UNCHANGED lvars

NewGoal ==
    /\ pc = "goal"
    /\ goal_requests' = <<>>
    /\ idx' = 1
    /\ calls' = Call("Goal", "base", "ok")
    /\ pc' = IF Len(patterns) = 0 THEN "resolve" ELSE "add_rpm_install"
    /\ UNCHANGED <<patterns, goal_items, rpm_transaction, db_transaction,
                   time, clock, out>>
    /\ UNCHANGED lvars

AddRpmInstall_First ==
    /\ pc = "add_rpm_install"
    /\ idx <= Len(patterns)
    /\ goal_requests' = Append(goal_requests, patterns[1])
    /\ calls' = Call("add_rpm_install", patterns[1], "ok")
    /\ idx' = idx + 1
    /\ pc' = IF idx + 1 > Len(patterns) THEN "resolve" ELSE "add_rpm_install"
    /\ UNCHANGED <<patterns, goal_items, rpm_transaction, db_transaction,
                   time, clock, out>>
    /\ UNCHANGED lvars

AddRpmInstall ==
    /\ pc = "add_rpm_install"
    /\ idx <= Len(patterns)
    /\ goal_requests' = Append(goal_requests, patterns[idx])
    /\ calls' = Call("add_rpm_install", patterns[idx], "ok")
    /\ idx' = idx + 1
    /\ pc' = IF idx + 1 > Len(patterns) THEN "resolve" ELSE "add_rpm_install"
    /\ UNCHANGED <<patterns, goal_items, rpm_transaction, db_transaction,
                   time, clock, out>>
    /\ UNCHANGED lvars

Resolve ==
    /\ pc = "resolve"
    /\ \E res \in GoalProblems, k \in 0..Len(goal_requests) :
        /\ res = "PROBLEM" => k = 0
        /\ goal_items' = SubSeq(goal_requests, 1, k)
        /\ calls' = Call("resolve", "false", res)
        /\ pc' = AfterResolve(res)
    /\ UNCHANGED <<patterns, idx, goal_requests, rpm_transaction,
                   db_transaction, time, clock, out>>
    /\ UNCHANGED lvars

PrintProblems ==
    /\ pc = "print_problems"
    /\ calls' = Call("get_formated_all_problems", "", "ok")
    /\ out' = out \o <<"problems", "endl">>
    /\ pc' = "returned"
    /\ UNCHANGED <<patterns, idx, goal_requests, goal_items, rpm_transaction,
                   db_transaction, time, clock>>
    /\ UNCHANGED lvars

PrintTransactionTable ==
    /\ pc = "print_transaction_table"
    /\ \E shown \in BOOLEAN :
        /\ calls' = Call("print_transaction_table", "goal", BoolStr(shown))
        /\ pc' = AfterPrintTable(shown)
    /\ UNCHANGED <<patterns, idx, goal_requests, goal_items, rpm_transaction,
                   db_transaction, time, clock, out>>
    /\ UNCHANGED lvars

UserConfirm ==
    /\ pc = "userconfirm"
    /\ \E answer \in BOOLEAN :
        /\ calls' = Call("userconfirm", "config", BoolStr(answer))
        /\ pc' = AfterUserConfirm(answer)
    /\ UNCHANGED <<patterns, idx, goal_requests, goal_items, rpm_transaction,
                   db_transaction, time, clock, out>>
    /\ UNCHANGED lvars

PrintAborted_Silent ==
    /\ pc = "print_aborted"
    /\ pc' = "returned"
    /\ UNCHANGED <<patterns, idx, goal_requests, goal_items, rpm_transaction,
                   db_transaction, time, clock, out, calls>>
    /\ UNCHANGED lvars

PrintAborted ==
    /\ pc = "print_aborted"
    /\ out' = out \o <<"Operation aborted.", "endl">>
    /\ pc' = "returned"
    /\ UNCHANGED <<patterns, idx, goal_requests, goal_items, rpm_transaction,
                   db_transaction, time, clock, calls>>
    /\ UNCHANGED lvars

DownloadPackages ==
    /\ pc = "download_packages"
    /\ \E res \in CallOutcomes :
        /\ calls' = Call("download_packages", "goal", res)
        /\ pc' = AfterCollaborator(res, "endl_109")
    /\ UNCHANGED <<patterns, idx, goal_requests, goal_items, rpm_transaction,
                   db_transaction, time, clock, out>>
    /\ UNCHANGED lvars

PrintEndl109 ==
    /\ pc = "endl_109"
    /\ out' = Append(out, "endl")
    /\ pc' = "rpm_transaction"
    /\ UNCHANGED <<patterns, idx, goal_requests, goal_items, rpm_transaction,
                   db_transaction, time, clock, calls>>
    /\ UNCHANGED lvars

NewRpmTransaction ==
    /\ pc = "rpm_transaction"
    /\ rpm_transaction' =
           [constructed |-> rpm_transaction.constructed + 1,
            items |-> <<>>, runs |-> 0]
    /\ calls' = Call("rpm::Transaction", "base", "ok")
    /\ pc' = "new_db_transaction"
    /\ UNCHANGED <<patterns, idx, goal_requests, goal_items, db_transaction,
                   time, clock, out>>
    /\ UNCHANGED lvars

NewDbTransaction_SkipFill ==
    /\ pc = "new_db_transaction"
    /\ db_transaction' =
           [NoDbTransaction EXCEPT !.created = db_transaction.created + 1]
    /\ calls' = Call("new_db_transaction", "ctx", "ok")
    /\ pc' = "now_start"
    /\ UNCHANGED <<patterns, idx, goal_requests, goal_items, rpm_transaction,
                   time, clock, out>>
    /\ UNCHANGED lvars

NewDbTransaction ==
    /\ pc = "new_db_transaction"
    /\ db_transaction' =
           [NoDbTransaction EXCEPT !.created = db_transaction.created + 1]
    /\ calls' = Call("new_db_transaction", "ctx", "ok")
    /\ pc' = "fill_transactions"
    /\ UNCHANGED <<patterns, idx, goal_requests, goal_items, rpm_transaction,
                   time, clock, out>>
    /\ UNCHANGED lvars

FillTransactions ==
    /\ pc = "fill_transactions"
    /\ db_transaction' = [db_transaction EXCEPT !.items = goal_items]
    /\ rpm_transaction' = [rpm_transaction EXCEPT !.items = goal_items]
    /\ calls' = Call("fill_transactions", "goal", "ok")
    /\ pc' = "now_start"
    /\ UNCHANGED <<patterns, idx, goal_requests, goal_items, time, clock, out>>
    /\ UNCHANGED lvars

NowStart ==
    /\ pc = "now_start"
    /\ time' = clock
    /\ pc' = "set_dt_start"
    /\ UNCHANGED <<patterns, idx, goal_requests, goal_items, rpm_transaction,
                   db_transaction, clock, out, calls>>
    /\ UNCHANGED lvars

SetDtStart ==
    /\ pc = "set_dt_start"
    /\ db_transaction' =
           [db_transaction EXCEPT !.dt_start = to_seconds(time),
                                  !.dt_start_sets = @ + 1]
    /\ calls' = Call("set_dt_start", "time", "ok")
    /\ pc' = "start"
    /\ UNCHANGED <<patterns, idx, goal_requests, goal_items, rpm_transaction,
                   time, clock, out>>
    /\ UNCHANGED lvars

Start_Skipped ==
    /\ pc = "start"
    /\ pc' = "run_transaction"
    /\ UNCHANGED <<patterns, idx, goal_requests, goal_items, rpm_transaction,
                   db_transaction, time, clock, out, calls>>
    /\ UNCHANGED lvars

Start ==
    /\ pc = "start"
    /\ db_transaction' = [db_transaction EXCEPT !.starts = @ + 1]
    /\ calls' = Call("start", "", "ok")
    /\ pc' = "run_transaction"
    /\ UNCHANGED <<patterns, idx, goal_requests, goal_items, rpm_transaction,
                   time, clock, out>>
    /\ UNCHANGED lvars

RunTransaction ==
    /\ pc = "run_transaction"
    /\ \E res \in CallOutcomes :
        /\ calls' = Call("run_transaction", "rpm_transaction", res)
        /\ pc' = AfterCollaborator(res, "now_end")
    /\ rpm_transaction' = [rpm_transaction EXCEPT !.runs = @ + 1]
    /\ UNCHANGED <<patterns, idx, goal_requests, goal_items, db_transaction,
                   time, clock, out>>
    /\ UNCHANGED lvars

NowEnd ==
    /\ pc = "now_end"
    /\ time' = clock
    /\ pc' = "set_dt_end"
    /\ UNCHANGED <<patterns, idx, goal_requests, goal_items, rpm_transaction,
                   db_transaction, clock, out, calls>>
    /\ UNCHANGED lvars

SetDtEnd_Skipped ==
    /\ pc = "set_dt_end"
    /\ pc' = "finish"
    /\ UNCHANGED <<patterns, idx, goal_requests, goal_items, rpm_transaction,
                   db_transaction, time, clock, out, calls>>
    /\ UNCHANGED lvars

SetDtEnd ==
    /\ pc = "set_dt_end"
    /\ db_transaction' =
           [db_transaction EXCEPT !.dt_end = to_seconds(time),
                                  !.dt_end_sets = @ + 1]
    /\ calls' = Call("set_dt_end", "time", "ok")
    /\ pc' = "finish"
    /\ UNCHANGED <<patterns, idx, goal_requests, goal_items, rpm_transaction,
                   time, clock, out>>
    /\ UNCHANGED lvars

Finish_WrongState ==
    /\ pc = "finish"
    /\ db_transaction' =
           [db_transaction EXCEPT !.state = "ERROR", !.finishes = @ + 1]
    /\ calls' = Call("finish", "ERROR", "ok")
    /\ pc' = "returned"
    /\ UNCHANGED <<patterns, idx, goal_requests, goal_items, rpm_transaction,
                   time, clock, out>>
    /\ UNCHANGED lvars

Finish ==
    /\ pc = "finish"
    /\ db_transaction' =
           [db_transaction EXCEPT !.state = "DONE", !.finishes = @ + 1]
    /\ calls' = Call("finish", "DONE", "ok")
    /\ pc' = "returned"
    /\ UNCHANGED <<patterns, idx, goal_requests, goal_items, rpm_transaction,
                   time, clock, out>>
    /\ UNCHANGED lvars

Next ==
    \/ ClockTick
    \/ ClockAdjust
    \/ CreateSystemRepo
    \/ LoadRpmRepos
    \/ PrintEndl86
    \/ NewGoal
    \/ AddRpmInstall
    \/ Resolve
    \/ PrintProblems
    \/ PrintTransactionTable
    \/ UserConfirm
    \/ PrintAborted
    \/ DownloadPackages
    \/ PrintEndl109
    \/ NewRpmTransaction
    \/ NewDbTransaction
    \/ FillTransactions
    \/ NowStart
    \/ SetDtStart
    \/ Start
    \/ RunTransaction
    \/ NowEnd
    \/ SetDtEnd
    \/ Finish

Spec == Init /\ [][Next]_vars

\* ---- a Logger and the calls made on it ----
LoggerInit ==
    /\ pc = "logger"
    /\ patterns = <<>>
    /\ idx = 1
    /\ goal_requests = <<>>
    /\ goal_items = <<>>
    /\ rpm_transaction = NoRpmTransaction
    /\ db_transaction = NoDbTransaction
    /\ time = 0
    /\ clock = MaxClock
    /\ out = <<>>
    /\ calls = <<>>
    /\ \E garbage \in Levels : level = NoLevel(garbage)
    /\ pid = 1
    /\ written = <<>>
    /\ sformat_count = 0
    /\ set_history = NoSetHistory
    /\ ret = NoRet

SetLevel ==
    /\ \E l \in Levels :
        /\ level' = set_level(level, l)
        /\ set_history' = [ever |-> TRUE, arg |-> l]
        /\ ret' = [NoRet EXCEPT !.op = "set_level", !.arg = l]
    /\ UNCHANGED <<pid, written, sformat_count>>
    /\ UNCHANGED ivars

GetLevel ==
    /\ ret' = [NoRet EXCEPT !.op = "get_level",
                            !.kind = get_level(level).kind,
                            !.lvl = get_level(level).lvl]
    /\ UNCHANGED <<level, pid, written, sformat_count, set_history>>
    /\ UNCHANGED ivars

IsLevelSet ==
    /\ ret' = [NoRet EXCEPT !.op = "is_level_set",
                            !.bool = is_level_set(level)]
    /\ UNCHANGED <<level, pid, written, sformat_count, set_history>>
    /\ UNCHANGED ivars

IsEnabledFor ==
    /\ \E l \in Levels :
        ret' = [NoRet EXCEPT !.op = "is_enabled_for", !.arg = l,
                             !.bool = is_enabled_for(level, l)]
    /\ UNCHANGED <<level, pid, written, sformat_count, set_history>>
    /\ UNCHANGED ivars

\* the sink: write(time, pid, level, message) noexcept, which may or may not
\* manage to deliver the message
write(t, p, l, message, sink_ok) ==
    written' = Append(written, [time |-> t, pid |-> p, level |-> l,
                                message |-> message, ok |-> sink_ok])

\* log_line(level, message): stamps the time and the pid, calls write
log_line(l, message, sink_ok) == write(clock, pid, l, message, sink_ok)

\* log(level, format, args...) { log_line(level, sformat(format, args...)); }
log(op, l, format, arg) ==
    /\ Len(written) < MaxWritten
    /\ sformat_count' = sformat_count + 1
    /\ \E sink_ok \in BOOLEAN :
        /\ log_line(l, sformat(format, arg), sink_ok)
        /\ ret' = [NoRet EXCEPT !.op = op, !.arg = l,
                                !.kind = LogLineOutcome(sink_ok),
                                !.formatted = 1, !.writes = 1]
    /\ UNCHANGED <<level, pid, set_history>>
    /\ UNCHANGED ivars

Critical == \E f \in Formats, a \in FormatArgs : log("critical", CRITICAL, f, a)

Error == \E f \in Formats, a \in FormatArgs : log("error", ERROR, f, a)

Warning == \E f \in Formats, a \in FormatArgs : log("warning", WARNING, f, a)

Notice == \E f \in Formats, a \in FormatArgs : log("notice", NOTICE, f, a)

Info == \E f \in Formats, a \in FormatArgs : log("info", INFO, f, a)

Debug == \E f \in Formats, a \in FormatArgs : log("debug", DEBUG, f, a)

Trace == \E f \in Formats, a \in FormatArgs : log("trace", TRACE, f, a)

Log == \E l \in Levels, f \in Formats, a \in FormatArgs : log("log", l, f, a)

LogLine ==
    /\ Len(written) < MaxWritten
    /\ \E l \in Levels, message \in {"x", "y"}, sink_ok \in BOOLEAN :
        /\ log_line(l, message, sink_ok)
        /\ ret' = [NoRet EXCEPT !.op = "log_line", !.arg = l,
                                !.kind = LogLineOutcome(sink_ok),
                                !.writes = 1]
    /\ UNCHANGED <<level, pid, sformat_count, set_history>>
    /\ UNCHANGED ivars

LoggerNext ==
    \/ SetLevel
    \/ GetLevel
    \/ IsLevelSet
    \/ IsEnabledFor
    \/ Critical
    \/ Error
    \/ Warning
    \/ Notice
    \/ Info
    \/ Debug
    \/ Trace
    \/ Log
    \/ LogLine

LoggerSpec == LoggerInit /\ [][LoggerNext]_vars

\* ---- observations over the recorded calls ----
Ended == pc \in {"returned", "thrown"}

CallIdx(op) == {i \in 1..Len(calls) : calls[i].op = op}

Count(op) == Cardinality(CallIdx(op))

Returned(op, res) == \E i \in CallIdx(op) : calls[i].res = res

Rendered(text) == \E i \in 1..Len(out) : out[i] = text

\* the stage of the pipeline a collaborator call belongs to
StageOf(op) ==
    CASE op \in {"create_system_repo", "load_rpm_repos"} -> 1
      [] op \in {"Goal", "add_rpm_install"} -> 2
      [] op \in {"resolve", "get_formated_all_problems"} -> 3
      [] op = "print_transaction_table" -> 4
      [] op = "userconfirm" -> 5
      [] op = "download_packages" -> 6
      [] op \in {"rpm::Transaction", "new_db_transaction",
                 "fill_transactions", "set_dt_start", "start"} -> 7
      [] op = "run_transaction" -> 8
      [] op \in {"set_dt_end", "finish"} -> 9

\* results after which run() goes on to the next stage
GoesOn(res) == res \in {"ok", "NO_PROBLEM", "true"}

\* C1: once resolution has reported problems, no Transaction Record is
\* created, nothing is downloaded and nothing is executed; the run goes only
\* to the rendering of the problem text and returns, and when it has ended
\* the problem text has been rendered.
C1_ProblemsStopRun ==
    Returned("resolve", "PROBLEM") =>
        /\ db_transaction.created = 0
        /\ Count("new_db_transaction") = 0
        /\ Count("download_packages") = 0
        /\ Count("run_transaction") = 0
        /\ rpm_transaction.runs = 0
        /\ pc \in {"print_problems", "returned"}
        /\ Ended => Rendered("problems")

C1_Witness ==
    /\ pc = "returned"
    /\ Returned("resolve", "PROBLEM")
    /\ Rendered("problems")
    /\ Count("add_rpm_install") > 0

\* C2: once the preview renderer has reported nothing to display, or the
\* user confirmation was not affirmative, download_packages and
\* run_transaction are never called.
C2_NoPreviewOrNoConfirmNoDownload ==
    (Returned("print_transaction_table", "false")
        \/ Returned("userconfirm", "false")) =>
        /\ Count("download_packages") = 0
        /\ Count("run_transaction") = 0
        /\ rpm_transaction.runs = 0
        /\ pc \in {"print_aborted", "returned"}

C2_Witness ==
    /\ pc = "returned"
    /\ Returned("print_transaction_table", "false")
    /\ Count("userconfirm") = 0

\* C3 (as claimed): every run that created a Transaction Record has, when it
\* ends, finished the record exactly once with state DONE, also when
\* run_transaction failed.
C3_FinishedExactlyOnce ==
    (Ended /\ db_transaction.created > 0) =>
        /\ db_transaction.finishes = 1
        /\ db_transaction.dt_end_sets = 1
        /\ db_transaction.state = "DONE"

\* C4: once download_packages has failed, the run is over: no Transaction
\* Record is created or started and run_transaction is never called.
C4_DownloadFailureStopsRun ==
    Returned("download_packages", "throw") =>
        /\ pc = "thrown"
        /\ db_transaction.created = 0
        /\ db_transaction.starts = 0
        /\ rpm_transaction.constructed = 0
        /\ Count("new_db_transaction") = 0
        /\ Count("start") = 0
        /\ Count("run_transaction") = 0

C4_Witness ==
    /\ pc = "thrown"
    /\ Returned("download_packages", "throw")
    /\ Returned("userconfirm", "true")

\* C5: whenever run_transaction is about to be called or has been called,
\* the Transaction Record has been created, its start time has been stamped
\* and it has been marked started, each exactly once and in that order.
C5_StartedBeforeExecution ==
    (pc = "run_transaction" \/ Count("run_transaction") > 0) =>
        /\ db_transaction.created = 1
        /\ db_transaction.dt_start_sets = 1
        /\ db_transaction.starts = 1
        /\ \E c \in CallIdx("new_db_transaction"),
              s \in CallIdx("set_dt_start"),
              t \in CallIdx("start") :
               /\ c < s
               /\ s < t
               /\ \A r \in CallIdx("run_transaction") : t < r

C5_Witness ==
    /\ Returned("run_transaction", "ok")
    /\ db_transaction.starts = 1
    /\ db_transaction.dt_start > 0

\* C6: the stages of a run are entered in the fixed order, without a gap and
\* without going back (so each at most once), the first call belongs to
\* repository activation, every call but the last one returned with a result
\* that lets the run go on, and the record is only finished after execution.
C6_StagesInOrder ==
    /\ calls # <<>> => StageOf(calls[1].op) = 1
    /\ \A i \in 1..(Len(calls) - 1) :
        /\ StageOf(calls[i + 1].op) \in
               {StageOf(calls[i].op), StageOf(calls[i].op) + 1}
        /\ calls[i].op # "get_formated_all_problems"
        /\ (GoesOn(calls[i].res)
              \/ (calls[i].op = "resolve"
                    /\ calls[i + 1].op = "get_formated_all_problems"))
    /\ \A op \in {"create_system_repo", "load_rpm_repos", "Goal", "resolve",
                  "print_transaction_table", "userconfirm",
                  "download_packages", "new_db_transaction",
                  "run_transaction", "finish"} : Count(op) <= 1
    /\ db_transaction.state # "UNSET" => Returned("run_transaction", "ok")

C6_Witness ==
    /\ pc = "returned"
    /\ Count("finish") = 1
    /\ Len(calls) >= 14

\* C7: a run with clean resolution, a preview with content, an affirmative
\* confirmation, a successful download and a successful execution returns
\* with exactly one Transaction Record, started once and finished once with
\* state DONE, one download, one execution, and neither the problem text nor
\* the "Operation aborted." notice rendered.
C7_HappyPath ==
    (/\ Ended
     /\ Returned("resolve", "NO_PROBLEM")
     /\ Returned("print_transaction_table", "true")
     /\ Returned("userconfirm", "true")
     /\ Returned("download_packages", "ok")
     /\ Returned("run_transaction", "ok")) =>
        /\ pc = "returned"
        /\ db_transaction.created = 1
        /\ db_transaction.starts = 1
        /\ db_transaction.finishes = 1
        /\ db_transaction.state = "DONE"
        /\ Count("download_packages") = 1
        /\ Count("run_transaction") = 1
        /\ rpm_transaction.runs = 1
        /\ ~Rendered("problems")
        /\ ~Rendered("Operation aborted.")

C7_Witness ==
    /\ pc = "returned"
    /\ Returned("run_transaction", "ok")
    /\ db_transaction.state = "DONE"
    /\ patterns = <<"foo">>
    /\ goal_items = <<"foo">>

\* C8 (as claimed): in every state the record's terminal state is set
\* exactly when its end timestamp has been set.
C8_StateIffEndAlways ==
    (db_transaction.state # "UNSET") <=> (db_transaction.dt_end_sets > 0)

\* C8 (amended): in every state a set terminal state implies a set end
\* timestamp, and once the run has ended the terminal state is set exactly
\* when the end timestamp has been set.
C8_StateIffEndAtEnd ==
    /\ (db_transaction.state # "UNSET") => (db_transaction.dt_end_sets > 0)
    /\ Ended =>
        ((db_transaction.state # "UNSET") <=> (db_transaction.dt_end_sets > 0))

C8_Witness ==
    /\ pc = "returned"
    /\ db_transaction.state = "DONE"
    /\ db_transaction.dt_end_sets = 1

\* C9 (as claimed): a record whose end time has been stamped has
\* end time >= start time.
C9_EndNotBeforeStart ==
    db_transaction.dt_end_sets > 0 =>
        db_transaction.dt_end >= db_transaction.dt_start

\* C10: once the confirmation was not affirmative, no Transaction Record is
\* created, nothing is downloaded or executed, the run goes only to the
\* rendering of the notice and returns, and when it has ended the
\* "Operation aborted." notice has been rendered.
C10_AbortedOnNoConfirm ==
    Returned("userconfirm", "false") =>
        /\ Returned("print_transaction_table", "true")
        /\ db_transaction.created = 0
        /\ Count("new_db_transaction") = 0
        /\ rpm_transaction.constructed = 0
        /\ Count("download_packages") = 0
        /\ Count("run_transaction") = 0
        /\ pc \in {"print_aborted", "returned"}
        /\ Ended => Rendered("Operation aborted.")

C10_Witness ==
    /\ pc = "returned"
    /\ Returned("userconfirm", "false")
    /\ Rendered("Operation aborted.")
    /\ patterns = <<"foo">>

\* run() itself rendered a notice (anything but a bare line end)
NoticeRendered == \E i \in 1..Len(out) : out[i] # "endl"

\* C11 (as claimed): every run that ended by user abstention, by a negative
\* confirmation or by an empty preview, returned with a notice rendered by
\* run() itself.
C11_AbstentionRendersNotice ==
    (Ended /\ (Returned("print_transaction_table", "false")
                 \/ Returned("userconfirm", "false"))) =>
        /\ pc = "returned"
        /\ NoticeRendered

\* C11 (amended): a run that ended by a negative confirmation returned with
\* the "Operation aborted." notice rendered by run(); a run that ended
\* because the preview renderer reported nothing to display returned too,
\* but run() itself rendered no notice.
C11_AbstentionEndsCleanly ==
    Ended =>
        /\ Returned("userconfirm", "false") =>
               (pc = "returned" /\ Rendered("Operation aborted."))
        /\ Returned("print_transaction_table", "false") =>
               (pc = "returned" /\ ~NoticeRendered)

C11_Witness ==
    /\ pc = "returned"
    /\ Returned("print_transaction_table", "false")
    /\ out = <<"endl">>

\* C12: once create_system_repo or load_rpm_repos has failed, the run is
\* over with the failure propagated: the failed call is the last call of the
\* run, it was not repeated, and no goal, resolution, preview, confirmation,
\* download, Transaction Record or execution exists.
C12_RepoFailureStopsRun ==
    (Returned("create_system_repo", "throw")
        \/ Returned("load_rpm_repos", "throw")) =>
        /\ pc = "thrown"
        /\ calls[Len(calls)].res = "throw"
        /\ Count("create_system_repo") = 1
        /\ Count("load_rpm_repos") <= 1
        /\ \A op \in {"Goal", "add_rpm_install", "resolve",
                      "print_transaction_table", "userconfirm",
                      "download_packages", "new_db_transaction",
                      "run_transaction"} : Count(op) = 0
        /\ goal_requests = <<>>
        /\ db_transaction.created = 0
        /\ rpm_transaction.runs = 0

C12_Witness ==
    /\ pc = "thrown"
    /\ Returned("create_system_repo", "ok")
    /\ Returned("load_rpm_repos", "throw")

C14_GetLevel ==
    /\ ret.op = "get_level" =>
        /\ (ret.kind = "throw") <=> ~set_history.ever
        /\ ret.kind = "return" => ret.lvl = set_history.arg
    /\ set_history.ever => level = [has_value |-> TRUE,
                                    value |-> set_history.arg]
    /\ ~set_history.ever => ~level.has_value

C14_Witness ==
    /\ ret.op = "get_level"
    /\ ret.kind = "return"
    /\ ret.lvl = NOTICE

ConvenienceOps ==
    {"critical", "error", "warning", "notice", "info", "debug", "trace"}

\* C15 (as claimed): a convenience call or log() whose level is suppressed
\* never invokes sformat.
C15_SuppressedNeverFormats ==
    (ret.op \in ConvenienceOps \cup {"log"}
        /\ ~is_enabled_for(level, ret.arg)) => ret.formatted = 0

\* C16 (as claimed): with a threshold T set, a convenience call at level L
\* invokes the sink's write once, with level L, when L <= T, and never when
\* L > T.
C16_WriteIffEnabled ==
    (ret.op \in ConvenienceOps /\ set_history.ever) =>
        /\ ret.writes = (IF ret.arg <= set_history.arg THEN 1 ELSE 0)
        /\ ret.writes = 1 => written[Len(written)].level = ret.arg

\* C17: log_line(level, message) returns to its caller whatever the level
\* and whether or not the sink managed to deliver the message.
C17_LogLineNeverRaises ==
    ret.op = "log_line" =>
        /\ ret.kind = "return"
        /\ ret.writes = 1
        /\ written[Len(written)].level = ret.arg

C17_Witness ==
    /\ ret.op = "log_line"
    /\ ret.kind = "return"
    /\ written # <<>>
    /\ ~written[Len(written)].ok

\* C18 (as claimed): a run that has a Transaction Record has, when it ends,
\* mutated it exactly twice: once for the start (start time, started) and
\* once for the finish (end time, terminal state).
C18_MutatedExactlyTwice ==
    (Ended /\ db_transaction.created > 0) =>
        /\ db_transaction.dt_start_sets = 1
        /\ db_transaction.starts = 1
        /\ db_transaction.dt_end_sets = 1
        /\ db_transaction.finishes = 1
        /\ Count("set_dt_start") + Count("start") = 2
        /\ Count("set_dt_end") + Count("finish") = 2

\* C19: the install requests registered so far are the first patterns, one
\* per pattern and in collection order; once the goal has been submitted,
\* every pattern has been registered before that single resolve(false), and
\* no request is registered after it.
C19_OneRequestPerPattern ==
    /\ Len(goal_requests) <= Len(patterns)
    /\ goal_requests = SubSeq(patterns, 1, Len(goal_requests))
    /\ Count("add_rpm_install") = Len(goal_requests)
    /\ (pc = "resolve" \/ Count("resolve") > 0) => goal_requests = patterns
    /\ Count("resolve") <= 1
    /\ \A r \in CallIdx("resolve") :
        /\ calls[r].arg = "false"
        /\ \A a \in CallIdx("add_rpm_install") : a < r
        /\ \A k \in 1..Len(patterns) :
              /\ calls[r - Len(patterns) + k - 1].op = "add_rpm_install"
              /\ calls[r - Len(patterns) + k - 1].arg = patterns[k]

C19_Witness ==
    /\ Returned("resolve", "NO_PROBLEM")
    /\ patterns = <<"foo", "nonexistent">>
    /\ goal_requests = <<"foo", "nonexistent">>

\* C20: fill_transactions is called at most once, after download_packages
\* has returned and before set_dt_start, start and run_transaction; a run
\* that stamps the start time or executes has linked the goal's items to the
\* record and to the execution transaction, and they stay as linked.
C20_ItemsLinkedBeforeStart ==
    /\ Count("fill_transactions") <= 1
    /\ \A f \in CallIdx("fill_transactions") :
        /\ \E d \in CallIdx("download_packages") :
              d < f /\ calls[d].res = "ok"
        /\ \A s \in CallIdx("set_dt_start") \cup CallIdx("start")
                      \cup CallIdx("run_transaction") : f < s
    /\ (db_transaction.dt_start_sets > 0 \/ db_transaction.starts > 0
          \/ Count("run_transaction") > 0) =>
        /\ Count("fill_transactions") = 1
        /\ db_transaction.items = goal_items
        /\ rpm_transaction.items = goal_items

C20_Witness ==
    /\ Returned("run_transaction", "ok")
    /\ db_transaction.starts = 1
    /\ db_transaction.items = <<"foo", "nonexistent">>
    /\ rpm_transaction.items = <<"foo", "nonexistent">>

====
